---- MODULE Spec2Model ----
(***************************************************************************)
(* Model of java_type_checker/expressions.py: the expression tree          *)
(* (Variable, Literal, NullLiteral, MethodCall, ConstructorCall), its two  *)
(* operations static_type() and check_types(), and the shared routine      *)
(* typecheck_arguments_function_call().  The type model (types.py: Type,   *)
(* is_subtype_of, method_named, constructor) is imported by the module and *)
(* is represented here by a small fixed universe of types.                 *)
(***************************************************************************)
EXTENDS Integers, Sequences, FiniteSets, TLC

VARIABLES expr, types, op, raised, returned, log, checked

vars == <<expr, types, op, raised, returned, log, checked>>

(***************************************************************************)
(* Bounds of the model.                                                    *)
(***************************************************************************)
\* largest number of nodes of an expression tree
MaxNodes == 4

(***************************************************************************)
(* The type model consumed by expressions.py (from .types import Type,     *)
(* NoSuchMethod, ClassOrInterface).                                        *)
(***************************************************************************)
\* the universe of types: a primitive, the null type, Object and a class
TypeNames == {"int", "null", "Object", "Foo"}

\* Type.null
Type_null == "null"

\* Type.object
Type_object == "Object"

\* the names a MethodCall may carry
MethodNames == {"bar", "baz"}

\* the direct supertypes of a type
direct_supertypes(t) == IF t = "Foo" THEN {"Object"} ELSE {}

RECURSIVE is_subtype_of(_, _)
\* Type.is_subtype_of: the reflexive, transitive closure of direct_supertypes
is_subtype_of(t, other) ==
    \/ t = other
    \/ \E s \in direct_supertypes(t) : is_subtype_of(s, other)

(***************************************************************************)
(* Errors.  An exception is a record; NoError stands for "nothing raised". *)
(***************************************************************************)
Error(kind, text, type, method, expected, got, expects, received) ==
    [kind |-> kind, text |-> text, type |-> type, method |-> method,
     expected |-> expected, got |-> got, expects |-> expects, received |-> received]

NoError == Error("None", "", "", "", 0, 0, <<>>, <<>>)

\* NoSuchMethod("Cannot invoke method " + method_name + "() on " + name)
NoSuchMethod(type, method) ==
    Error("NoSuchMethod", "Cannot invoke method", type, method, 0, 0, <<>>, <<>>)

\* the failure the type model signals when a name does not resolve on a type
ResolutionFailure(type, method) ==
    Error("ResolutionFailure", "has no method named", type, method, 0, 0, <<>>, <<>>)

\* JavaTypeError(message)
JavaTypeError(text, type, method, expected, got, expects, received) ==
    Error("JavaTypeError", text, type, method, expected, got, expects, received)

\* the signatures of the methods declared on each type
Methods(t) ==
    CASE t = "Object" -> [baz |-> [argument_types |-> <<>>, return_type |-> "int"]]
      [] t = "Foo"    -> [bar |-> [argument_types |-> <<"Foo">>, return_type |-> "Foo"],
                          baz |-> [argument_types |-> <<>>, return_type |-> "int"]]
      [] OTHER        -> [x \in {} |-> x]

\* Type.method_named(name): the signature, or a resolution failure
method_named(t, name) ==
    IF name \in DOMAIN Methods(t)
    THEN [raised |-> NoError,
          argument_types |-> Methods(t)[name].argument_types,
          return_type |-> Methods(t)[name].return_type]
    ELSE [raised |-> ResolutionFailure(t, name),
          argument_types |-> <<>>, return_type |-> ""]

\* Type.constructor: every object-category type has exactly one
constructor(t) ==
    CASE t = "Foo" -> [argument_types |-> <<"int", "Object">>]
      [] OTHER     -> [argument_types |-> <<>>]

\* the parameter lists of every signature of the type model
ParamLists == {<<>>, <<"Foo">>, <<"int", "Object">>}

(***************************************************************************)
(* Expression nodes.                                                       *)
(***************************************************************************)
Variable(name, declared_type) ==
    [tag |-> "Variable", name |-> name, declared_type |-> declared_type]

Literal(value, type) ==
    [tag |-> "Literal", value |-> value, type |-> type]

NullLiteral ==
    [tag |-> "NullLiteral", value |-> "null", type |-> Type_null]

MethodCall(receiver, method_name, args) ==
    [tag |-> "MethodCall", receiver |-> receiver, method_name |-> method_name,
     args |-> args]

ConstructorCall(instantiated_type, args) ==
    [tag |-> "ConstructorCall", instantiated_type |-> instantiated_type, args |-> args]

IsCall(e) == e.tag \in {"MethodCall", "ConstructorCall"}

(***************************************************************************)
(* static_type()                                                           *)
(***************************************************************************)
RECURSIVE static_type(_)

\* static_type() with an unresolved method swallowed: the null type is returned
static_type_unresolved_null(e) ==
    CASE e.tag = "Variable"        -> [raised |-> NoError, type |-> e.declared_type]
      [] e.tag = "Literal"         -> [raised |-> NoError, type |-> e.type]
      [] e.tag = "NullLiteral"     -> [raised |-> NoError, type |-> Type_null]
      [] e.tag = "ConstructorCall" -> [raised |-> NoError, type |-> e.instantiated_type]
      [] e.tag = "MethodCall"      ->
            LET r == static_type(e.receiver)
                method == method_named(r.type, e.method_name)
            IN IF method.raised # NoError
               THEN [raised |-> NoError, type |-> Type_null]
               ELSE [raised |-> NoError, type |-> method.return_type]

\* static_type() with Literal returning self.value for self.type
static_type_literal_value(e) ==
    CASE e.tag = "Variable"        -> [raised |-> NoError, type |-> e.declared_type]
      [] e.tag = "Literal"         -> [raised |-> NoError, type |-> e.value]
      [] e.tag = "NullLiteral"     -> [raised |-> NoError, type |-> Type_null]
      [] e.tag = "ConstructorCall" -> [raised |-> NoError, type |-> e.instantiated_type]
      [] e.tag = "MethodCall"      ->
            LET r == static_type(e.receiver) IN
            IF r.raised # NoError THEN r
            ELSE LET method == method_named(r.type, e.method_name) IN
                 IF method.raised # NoError
                 THEN [raised |-> method.raised, type |-> ""]
                 ELSE [raised |-> NoError, type |-> method.return_type]

\* Expression.static_type of each variant
static_type(e) ==
    CASE e.tag = "Variable"        -> [raised |-> NoError, type |-> e.declared_type]
      [] e.tag = "Literal"         -> [raised |-> NoError, type |-> e.type]
      [] e.tag = "NullLiteral"     -> [raised |-> NoError, type |-> Type_null]
      [] e.tag = "ConstructorCall" -> [raised |-> NoError, type |-> e.instantiated_type]
      [] e.tag = "MethodCall"      ->
            LET r == static_type(e.receiver) IN
            IF r.raised # NoError THEN r
            ELSE LET method == method_named(r.type, e.method_name) IN
                 IF method.raised # NoError
                 THEN [raised |-> method.raised, type |-> ""]
                 ELSE [raised |-> NoError, type |-> method.return_type]

(***************************************************************************)
(* typecheck_arguments_function_call(args, types)                          *)
(***************************************************************************)
Min(a, b) == IF a < b THEN a ELSE b

RECURSIVE typecheck_from(_, _, _)

\* the loop without the special case of line 66: null is judged by is_subtype_of alone
typecheck_from_null_rejected(args, tys, i) ==
    IF i > Min(Len(args), Len(tys)) THEN [raised |-> NoError, value |-> TRUE]
    ELSE LET st == static_type(args[i]) IN
         IF st.raised # NoError THEN [raised |-> st.raised, value |-> FALSE]
         ELSE IF ~is_subtype_of(st.type, tys[i])
              THEN [raised |-> NoError, value |-> FALSE]
              ELSE typecheck_from(args, tys, i + 1)

\* the loop with `return True` inside its body: only the first pair is judged
typecheck_from_first_only(args, tys, i) ==
    IF i > Min(Len(args), Len(tys)) THEN [raised |-> NoError, value |-> TRUE]
    ELSE LET st == static_type(args[i]) IN
         IF st.raised # NoError THEN [raised |-> st.raised, value |-> FALSE]
         ELSE IF ~is_subtype_of(st.type, tys[i])
              THEN IF st.type = Type_null /\ is_subtype_of(tys[i], Type_object)
                   THEN [raised |-> NoError, value |-> TRUE]
                   ELSE [raised |-> NoError, value |-> FALSE]
              ELSE [raised |-> NoError, value |-> TRUE]

\* the loop over zip(args, types), from position i on
typecheck_from(args, tys, i) ==
    IF i > Min(Len(args), Len(tys)) THEN [raised |-> NoError, value |-> TRUE]
    ELSE LET st == static_type(args[i]) IN
         IF st.raised # NoError THEN [raised |-> st.raised, value |-> FALSE]
         ELSE IF ~is_subtype_of(st.type, tys[i])
              THEN IF st.type = Type_null /\ is_subtype_of(tys[i], Type_object)
                   THEN typecheck_from(args, tys, i + 1)
                   ELSE [raised |-> NoError, value |-> FALSE]
              ELSE typecheck_from(args, tys, i + 1)

typecheck_arguments_function_call(args, tys) == typecheck_from(args, tys, 1)

\* [receivedArg.static_type().name for receivedArg in self.args]
received_arguments(args) == [i \in 1..Len(args) |-> static_type(args[i]).type]

(***************************************************************************)
(* check_types()                                                           *)
(***************************************************************************)
RECURSIVE check_types(_), check_args(_, _)

\* the loop going on after a failure: the last failing argument's error is raised
check_args_continue(args, i) ==
    IF i > Len(args) THEN [raised |-> NoError, log |-> <<>>]
    ELSE LET r == check_types(args[i])
             rest == check_args(args, i + 1)
         IN [raised |-> IF rest.raised # NoError THEN rest.raised ELSE r.raised,
             log |-> r.log \o rest.log]

\* for arg in self.args: arg.check_types()
check_args(args, i) ==
    IF i > Len(args) THEN [raised |-> NoError, log |-> <<>>]
    ELSE LET r == check_types(args[i]) IN
         IF r.raised # NoError THEN r
         ELSE LET rest == check_args(args, i + 1) IN
              [raised |-> rest.raised, log |-> r.log \o rest.log]

\* lines 91-103 in the other order: the positions, then the count
MethodCall_arguments_types_first(e, receiver_type, method) ==
    LET l == <<"MethodCall.static_type", "MethodCall.method_named",
               "MethodCall.typecheck_arguments">>
        c == typecheck_arguments_function_call(e.args, method.argument_types)
    IN IF c.raised # NoError THEN [raised |-> c.raised, log |-> l]
       ELSE IF ~c.value
       THEN [raised |-> JavaTypeError("expects arguments of type", receiver_type,
                            e.method_name, 0, 0, method.argument_types,
                            received_arguments(e.args)),
             log |-> l]
       ELSE IF Len(e.args) # Len(method.argument_types)
       THEN [raised |-> JavaTypeError("Wrong number of arguments", receiver_type,
                            e.method_name, Len(method.argument_types), Len(e.args),
                            <<>>, <<>>),
             log |-> l \o <<"MethodCall.len">>]
       ELSE [raised |-> NoError, log |-> l \o <<"MethodCall.len">>]

\* MethodCall.check_types, lines 91-103: the count, then the positions
MethodCall_arguments(e, receiver_type, method) ==
    LET l == <<"MethodCall.static_type", "MethodCall.method_named", "MethodCall.len">> IN
    IF Len(e.args) # Len(method.argument_types)
    THEN [raised |-> JavaTypeError("Wrong number of arguments", receiver_type,
                         e.method_name, Len(method.argument_types), Len(e.args),
                         <<>>, <<>>),
          log |-> l]
    ELSE LET c == typecheck_arguments_function_call(e.args, method.argument_types)
             lc == l \o <<"MethodCall.typecheck_arguments">>
         IN IF c.raised # NoError THEN [raised |-> c.raised, log |-> lc]
            ELSE IF ~c.value
            THEN [raised |-> JavaTypeError("expects arguments of type", receiver_type,
                                 e.method_name, 0, 0, method.argument_types,
                                 received_arguments(e.args)),
                  log |-> lc]
            ELSE [raised |-> NoError, log |-> lc]

\* lines 86-105 without the test of lines 87-88
MethodCall_rules_null_unchecked(e) ==
    LET st == static_type(e.receiver) IN
    IF st.raised # NoError
    THEN [raised |-> st.raised, log |-> <<"MethodCall.static_type">>]
    ELSE IF is_subtype_of(st.type, Type_object)
    THEN LET method == method_named(st.type, e.method_name) IN
         IF method.raised # NoError
         THEN [raised |-> method.raised,
               log |-> <<"MethodCall.static_type", "MethodCall.method_named">>]
         ELSE MethodCall_arguments(e, st.type, method)
    ELSE [raised |-> JavaTypeError("does not have methods", st.type, "", 0, 0,
                                   <<>>, <<>>),
          log |-> <<"MethodCall.static_type">>]

\* lines 86-105 with the failure of method_named caught and passed over
MethodCall_rules_unresolved_passes(e) ==
    LET st == static_type(e.receiver) IN
    IF st.raised # NoError
    THEN [raised |-> st.raised, log |-> <<"MethodCall.static_type">>]
    ELSE IF st.type = Type_null
    THEN [raised |-> NoSuchMethod(st.type, e.method_name),
          log |-> <<"MethodCall.static_type">>]
    ELSE IF is_subtype_of(st.type, Type_object)
    THEN LET method == method_named(st.type, e.method_name) IN
         IF method.raised # NoError
         THEN [raised |-> NoError,
               log |-> <<"MethodCall.static_type", "MethodCall.method_named">>]
         ELSE MethodCall_arguments(e, st.type, method)
    ELSE [raised |-> JavaTypeError("does not have methods", st.type, "", 0, 0,
                                   <<>>, <<>>),
          log |-> <<"MethodCall.static_type">>]

\* MethodCall.check_types after the loop over the arguments, lines 86-105
MethodCall_rules(e) ==
    LET st == static_type(e.receiver) IN
    IF st.raised # NoError
    THEN [raised |-> st.raised, log |-> <<"MethodCall.static_type">>]
    ELSE IF st.type = Type_null
    THEN [raised |-> NoSuchMethod(st.type, e.method_name),
          log |-> <<"MethodCall.static_type">>]
    ELSE IF is_subtype_of(st.type, Type_object)
    THEN LET method == method_named(st.type, e.method_name) IN
         IF method.raised # NoError
         THEN [raised |-> method.raised,
               log |-> <<"MethodCall.static_type", "MethodCall.method_named">>]
         ELSE MethodCall_arguments(e, st.type, method)
    ELSE [raised |-> JavaTypeError("does not have methods", st.type, "", 0, 0,
                                   <<>>, <<>>),
          log |-> <<"MethodCall.static_type">>]

\* lines 126-135 without the count of lines 126-130
ConstructorCall_arguments_no_len(e, method) ==
    LET c == typecheck_arguments_function_call(e.args, method.argument_types)
        lc == <<"ConstructorCall.is_subtype_of", "ConstructorCall.typecheck_arguments">>
    IN IF c.raised # NoError THEN [raised |-> c.raised, log |-> lc]
       ELSE IF ~c.value
       THEN [raised |-> JavaTypeError("expects arguments of type",
                            e.instantiated_type, "constructor", 0, 0,
                            method.argument_types, received_arguments(e.args)),
             log |-> lc]
       ELSE [raised |-> NoError, log |-> lc]

\* ConstructorCall.check_types, lines 126-135: the count, then the positions
ConstructorCall_arguments(e, method) ==
    LET l == <<"ConstructorCall.is_subtype_of", "ConstructorCall.len">> IN
    IF Len(e.args) # Len(method.argument_types)
    THEN [raised |-> JavaTypeError("Wrong number of arguments", e.instantiated_type,
                         "constructor", Len(method.argument_types), Len(e.args),
                         <<>>, <<>>),
          log |-> l]
    ELSE LET c == typecheck_arguments_function_call(e.args, method.argument_types)
             lc == l \o <<"ConstructorCall.typecheck_arguments">>
         IN IF c.raised # NoError THEN [raised |-> c.raised, log |-> lc]
            ELSE IF ~c.value
            THEN [raised |-> JavaTypeError("expects arguments of type",
                                 e.instantiated_type, "constructor", 0, 0,
                                 method.argument_types, received_arguments(e.args)),
                  log |-> lc]
            ELSE [raised |-> NoError, log |-> lc]

\* ConstructorCall.check_types after the loop over the arguments, lines 123-135
ConstructorCall_rules(e) ==
    IF ~is_subtype_of(e.instantiated_type, Type_object)
    THEN [raised |-> JavaTypeError("is not instantiable", e.instantiated_type, "",
                                   0, 0, <<>>, <<>>),
          log |-> <<"ConstructorCall.is_subtype_of">>]
    ELSE ConstructorCall_arguments(e, constructor(e.instantiated_type))

\* a call: the arguments first, then the call's own rules
call_check_types(e, rules) ==
    LET a == check_args(e.args, 1) IN
    IF a.raised # NoError THEN a
    ELSE [raised |-> rules.raised, log |-> a.log \o rules.log]

check_types(e) ==
    CASE e.tag = "Variable"        -> [raised |-> NoError, log |-> <<"Variable.check_types">>]
      [] e.tag = "Literal"         -> [raised |-> NoError, log |-> <<"Literal.check_types">>]
      [] e.tag = "NullLiteral"     -> [raised |-> NoError, log |-> <<"Literal.check_types">>]
      [] e.tag = "MethodCall"      -> call_check_types(e, MethodCall_rules(e))
      [] e.tag = "ConstructorCall" -> call_check_types(e, ConstructorCall_rules(e))

(***************************************************************************)
(* The expression trees a caller can build, by number of nodes.            *)
(***************************************************************************)
\* the leaves a call may have as receiver or argument
Leaves == {Variable("x", "Foo"), Literal("1", "int"), NullLiteral}

\* the types a ConstructorCall below the root instantiates
Instantiated == {"int", "Object", "Foo"}

\* every variable and literal, and the instantiation of the null type: roots only
RootOnly ==
    {Variable(n, t) : n \in {"x", "y"}, t \in TypeNames}
      \cup {Literal(v, t) : v \in {"1", "null"}, t \in TypeNames}
      \cup {ConstructorCall(Type_null, <<>>)}

RECURSIVE ArgLists(_, _, _)
\* the lists of k arguments with n nodes in all, T[j] being the trees of j nodes
ArgLists(T, k, n) ==
    IF k = 0 THEN (IF n = 0 THEN {<<>>} ELSE {})
    ELSE UNION {{<<a>> \o rest : a \in T[j], rest \in ArgLists(T, k - 1, n - j)} :
                j \in 1..(n - (k - 1))}

\* the argument lists with n nodes in all
ArgListsOfSize(T, n) == UNION {ArgLists(T, k, n) : k \in 0..n}

\* the trees of exactly n nodes, T[j] being the trees of j < n nodes
ExprsOfSize(T, n) ==
    (IF n = 1 THEN Leaves ELSE {})
      \cup UNION {{MethodCall(r, m, a) : r \in T[j], m \in MethodNames,
                                         a \in ArgListsOfSize(T, n - 1 - j)} :
                  j \in 1..(n - 1)}
      \cup {ConstructorCall(t, a) : t \in Instantiated, a \in ArgListsOfSize(T, n - 1)}

RECURSIVE ExprsBySize(_)
\* the sequence of the sets of trees of 1, 2, ..., n nodes
ExprsBySize(n) ==
    IF n = 0 THEN <<>>
    ELSE LET T == ExprsBySize(n - 1) IN Append(T, ExprsOfSize(T, n))

\* the trees of fewer than MaxNodes nodes, by size: the children of a root
Smaller == ExprsBySize(MaxNodes - 1)

(***************************************************************************)
(* The state machine: a caller builds a tree, then applies operations.     *)
(***************************************************************************)
\* e is a tree of at most MaxNodes nodes
Built(e) ==
    \/ e \in RootOnly \cup Leaves
    \/ \E t \in Instantiated : e = ConstructorCall(t, <<>>)
    \/ \E n \in 2..MaxNodes : \E j \in 1..(n - 1) :
         \E rest \in ArgListsOfSize(Smaller, n - 1 - j) :
           \E a \in Smaller[j] :
             \/ \E t \in Instantiated : e = ConstructorCall(t, <<a>> \o rest)
             \/ \E m \in MethodNames : e = MethodCall(a, m, rest)

Init ==
    /\ Built(expr)
    /\ types = <<>>
    /\ op = "new"
    /\ raised = NoError
    /\ returned = ""
    /\ log = <<>>
    /\ checked = FALSE

\* expr.check_types()
CheckTypes ==
    LET c == check_types(expr) IN
    /\ op' = "check_types"
    /\ raised' = c.raised
    /\ log' = c.log
    /\ returned' = IF c.raised = NoError THEN "None" ELSE ""
    /\ types' = <<>>
    /\ checked' = TRUE
    /\ UNCHANGED expr

\* expr.static_type()
StaticType ==
    LET t == static_type(expr) IN
    /\ op' = "static_type"
    /\ raised' = t.raised
    /\ returned' = t.type
    /\ log' = <<>>
    /\ types' = <<>>
    /\ UNCHANGED <<expr, checked>>

\* typecheck_arguments_function_call(expr.args, tys)
TypecheckArguments ==
    /\ IsCall(expr)
    /\ \E tys \in ParamLists :
         LET c == typecheck_arguments_function_call(expr.args, tys) IN
         /\ op' = "typecheck_arguments_function_call"
         /\ types' = tys
         /\ raised' = c.raised
         /\ returned' = IF c.raised # NoError THEN ""
                        ELSE IF c.value THEN "True" ELSE "False"
         /\ log' = <<>>
    /\ UNCHANGED <<expr, checked>>

Next == CheckTypes \/ StaticType \/ TypecheckArguments

Spec == Init /\ [][Next]_vars

(***************************************************************************)
(* Vocabulary of the properties.                                           *)
(***************************************************************************)
TypeOK ==
    /\ IsCall(expr) \/ expr.tag \in {"Variable", "Literal", "NullLiteral"}
    /\ op \in {"new", "check_types", "static_type", "typecheck_arguments_function_call"}
    /\ checked \in BOOLEAN

\* static_type() of e returns / the type it returns
HasType(e) == static_type(e).raised = NoError
TypeOf(e) == static_type(e).type

\* check_types() of e returns normally
Passes(e) == check_types(e).raised = NoError

\* every argument of the call e passes its own check_types()
ArgsOK(e) == \A i \in 1..Len(e.args) : Passes(e.args[i])

\* the leftmost argument that fails its own check_types()
FirstFailing(args) ==
    CHOOSE i \in 1..Len(args) :
        /\ ~Passes(args[i])
        /\ \A j \in 1..(i - 1) : Passes(args[j])

\* an argument of static type t is accepted where p is expected
Compatible(t, p) ==
    \/ is_subtype_of(t, p)
    \/ t = Type_null /\ is_subtype_of(p, Type_object)

\* the call e has a resolved signature
Resolved(e) ==
    IF e.tag = "MethodCall"
    THEN /\ HasType(e.receiver)
         /\ TypeOf(e.receiver) # Type_null
         /\ is_subtype_of(TypeOf(e.receiver), Type_object)
         /\ method_named(TypeOf(e.receiver), e.method_name).raised = NoError
    ELSE is_subtype_of(e.instantiated_type, Type_object)

\* the parameter types of the resolved signature of the call e
Signature(e) ==
    IF e.tag = "MethodCall"
    THEN method_named(TypeOf(e.receiver), e.method_name).argument_types
    ELSE constructor(e.instantiated_type).argument_types

\* count and positions of the arguments of e fit its resolved signature
ArgumentsFit(e) ==
    /\ Len(e.args) = Len(Signature(e))
    /\ \A i \in 1..Len(e.args) :
         HasType(e.args[i]) /\ Compatible(TypeOf(e.args[i]), Signature(e)[i])

RECURSIVE Descendants(_)
\* the nodes below e: receivers and arguments, at any depth
Descendants(e) ==
    LET kids == (IF IsCall(e) THEN {e.args[i] : i \in 1..Len(e.args)} ELSE {})
                  \cup (IF e.tag = "MethodCall" THEN {e.receiver} ELSE {})
    IN kids \cup UNION {Descendants(k) : k \in kids}

RECURSIVE ResolvedType(_)
\* the type of e read off the signatures, "" when a method name does not resolve
ResolvedType(e) ==
    CASE e.tag = "Variable"        -> e.declared_type
      [] e.tag = "Literal"         -> e.type
      [] e.tag = "NullLiteral"     -> Type_null
      [] e.tag = "ConstructorCall" -> e.instantiated_type
      [] e.tag = "MethodCall"      ->
            LET t == ResolvedType(e.receiver) IN
            IF e.method_name \in DOMAIN Methods(t)
            THEN Methods(t)[e.method_name].return_type
            ELSE ""

RECURSIVE LogsUpTo(_, _)
\* what the validation of the arguments 1..i logs
LogsUpTo(args, i) ==
    IF i = 0 THEN <<>> ELSE LogsUpTo(args, i - 1) \o check_types(args[i]).log

RECURSIVE Origin(_)
\* the node whose own rules fail first in the traversal of e
Origin(e) == IF IsCall(e) /\ ~ArgsOK(e) THEN Origin(e.args[FirstFailing(e.args)]) ELSE e

NullReceiver ==
    /\ op = "check_types"
    /\ expr.tag = "MethodCall"
    /\ HasType(expr.receiver)
    /\ TypeOf(expr.receiver) = Type_null

(***************************************************************************)
(* C1                                                                      *)
(***************************************************************************)
\* C1 as stated: check_types() of a MethodCall whose receiver's static type is
\* Type.null fails with NoSuchMethod whatever the method name and the arguments.
C1_NullReceiverAlwaysNoSuchMethod ==
    NullReceiver => raised.kind = "NoSuchMethod"

\* C1 amended: check_types() of a MethodCall whose receiver's static type is
\* Type.null and whose arguments all pass their own check_types() fails with
\* NoSuchMethod naming the method, whatever the method name and the number and
\* variants of the arguments; when an argument fails, the leftmost failing
\* argument's error is raised instead.
C1_NullReceiverNoSuchMethod ==
    NullReceiver =>
        IF ArgsOK(expr)
        THEN raised = NoSuchMethod(Type_null, expr.method_name)
        ELSE raised = check_types(expr.args[FirstFailing(expr.args)]).raised

C1_Witness ==
    /\ NullReceiver
    /\ ArgsOK(expr)
    /\ Len(expr.args) >= 2
    /\ \E i \in 1..Len(expr.args) : IsCall(expr.args[i])
    /\ raised.kind = "NoSuchMethod"

C3_SubtreeValidated ==
    (op = "check_types" /\ raised = NoError) =>
        \A d \in Descendants(expr) : Passes(d)

(***************************************************************************)
(* C4                                                                      *)
(***************************************************************************)
\* C4 as stated: a call whose argument count equals the parameter count of the
\* resolved signature and whose arguments' static types are position by position
\* compatible passes check_types().
C4_FittingArgumentsPass ==
    (op = "check_types" /\ IsCall(expr) /\ Resolved(expr) /\ ArgumentsFit(expr))
        => raised = NoError

\* C4 amended: such a call passes check_types() provided every argument passes
\* its own check_types() as well.
C4_FittingCheckedArgumentsPass ==
    (op = "check_types" /\ IsCall(expr) /\ Resolved(expr) /\ ArgumentsFit(expr)
        /\ ArgsOK(expr))
        => raised = NoError /\ returned = "None"

C4_Witness ==
    /\ op = "check_types"
    /\ expr.tag = "ConstructorCall"
    /\ Resolved(expr) /\ ArgumentsFit(expr) /\ ArgsOK(expr)
    /\ Len(expr.args) = 2
    /\ TypeOf(expr.args[2]) = Type_null
    /\ ~is_subtype_of(Type_null, Signature(expr)[2])
    /\ raised = NoError

(***************************************************************************)
(* C5                                                                      *)
(***************************************************************************)
\* C5: a call with a resolved signature whose arguments all pass their own
\* check_types() and whose argument count differs from the parameter count fails
\* with the wrong-number-of-arguments JavaTypeError carrying the expected and
\* the actual count, whether or not the arguments fit the parameter types.
C5_ArityMismatch ==
    (op = "check_types" /\ IsCall(expr) /\ Resolved(expr) /\ ArgsOK(expr)
        /\ Len(expr.args) # Len(Signature(expr)))
        => /\ raised.kind = "JavaTypeError"
           /\ raised.text = "Wrong number of arguments"
           /\ raised.expected = Len(Signature(expr))
           /\ raised.got = Len(expr.args)

C5_Witness ==
    /\ op = "check_types"
    /\ IsCall(expr) /\ Resolved(expr) /\ ArgsOK(expr)
    /\ Len(expr.args) > Len(Signature(expr))
    /\ Len(Signature(expr)) > 0
    /\ \A i \in 1..Len(Signature(expr)) :
         Compatible(TypeOf(expr.args[i]), Signature(expr)[i])
    /\ raised.text = "Wrong number of arguments"

(***************************************************************************)
(* C6                                                                      *)
(***************************************************************************)
\* C6: when an argument of a call fails its own check_types(), the call fails
\* with exactly the error of the leftmost failing argument, which is the error of
\* the node where the failure arose at any depth; only the arguments up to that
\* one are validated and none of the call's own rules is evaluated.
C6_NestedFailure ==
    (op = "check_types" /\ IsCall(expr) /\ ~ArgsOK(expr)) =>
        LET i == FirstFailing(expr.args) IN
        /\ raised = check_types(expr.args[i]).raised
        /\ raised # NoError
        /\ raised = check_types(Origin(expr)).raised
        /\ log = LogsUpTo(expr.args, i)

C6_Witness ==
    /\ op = "check_types"
    /\ IsCall(expr)
    /\ ~ArgsOK(expr)
    /\ \E i, j \in 1..Len(expr.args) :
         /\ i < j
         /\ i = FirstFailing(expr.args)
         /\ IsCall(expr.args[i]) /\ ~ArgsOK(expr.args[i])
         /\ ~Passes(expr.args[j])
         /\ check_types(expr.args[j]).raised # check_types(expr.args[i]).raised
         /\ raised = check_types(expr.args[i]).raised

(***************************************************************************)
(* C7                                                                      *)
(***************************************************************************)
CommonPositions == 1..Min(Len(expr.args), Len(types))

C8_Leaves ==
    expr.tag \in {"Variable", "Literal", "NullLiteral"} =>
        /\ op = "check_types" => raised = NoError /\ returned = "None"
        /\ op = "static_type" =>
             /\ raised = NoError
             /\ returned = CASE expr.tag = "Variable" -> expr.declared_type
                             [] expr.tag = "Literal" -> expr.type
                             [] expr.tag = "NullLiteral" -> Type_null

C8_Witness ==
    /\ expr.tag = "Literal"
    /\ expr.type = "Object"
    /\ op = "static_type"
    /\ checked
    /\ returned = "Object"

(***************************************************************************)
(* C9                                                                      *)
(***************************************************************************)
\* the error of the earliest failing step of a MethodCall, in the stated order
C9_MethodCallError(e) ==
    LET T == TypeOf(e.receiver)
        method == method_named(T, e.method_name)
    IN IF T = Type_null THEN NoSuchMethod(T, e.method_name)
       ELSE IF ~is_subtype_of(T, Type_object)
       THEN JavaTypeError("does not have methods", T, "", 0, 0, <<>>, <<>>)
       ELSE IF method.raised # NoError THEN ResolutionFailure(T, e.method_name)
       ELSE IF Len(e.args) # Len(method.argument_types)
       THEN JavaTypeError("Wrong number of arguments", T, e.method_name,
                          Len(method.argument_types), Len(e.args), <<>>, <<>>)
       ELSE IF \E i \in 1..Len(e.args) :
                  ~Compatible(TypeOf(e.args[i]), method.argument_types[i])
       THEN JavaTypeError("expects arguments of type", T, e.method_name, 0, 0,
                          method.argument_types,
                          [i \in 1..Len(e.args) |-> TypeOf(e.args[i])])
       ELSE NoError

\* the error of the earliest failing step of a ConstructorCall, in the stated order
C9_ConstructorCallError(e) ==
    LET T == e.instantiated_type
        params == constructor(T).argument_types
    IN IF ~is_subtype_of(T, Type_object)
       THEN JavaTypeError("is not instantiable", T, "", 0, 0, <<>>, <<>>)
       ELSE IF Len(e.args) # Len(params)
       THEN JavaTypeError("Wrong number of arguments", T, "constructor",
                          Len(params), Len(e.args), <<>>, <<>>)
       ELSE IF \E i \in 1..Len(e.args) : ~Compatible(TypeOf(e.args[i]), params[i])
       THEN JavaTypeError("expects arguments of type", T, "constructor", 0, 0,
                          params, [i \in 1..Len(e.args) |-> TypeOf(e.args[i])])
       ELSE NoError

C10_CheckedHasType ==
    (op = "check_types" /\ raised = NoError) =>
        /\ HasType(expr) /\ TypeOf(expr) \in TypeNames
        /\ expr.tag = "MethodCall" => HasType(expr.receiver)
        /\ IsCall(expr) => \A i \in 1..Len(expr.args) : HasType(expr.args[i])

C10_Witness ==
    /\ op = "check_types"
    /\ raised = NoError
    /\ expr.tag = "MethodCall"
    /\ ~Passes(expr.receiver)
    /\ HasType(expr)
====
